---------------------------- MODULE Spec2Model ----------------------------
(***************************************************************************)
(* Model of src/app.py, the Superstore sales dashboard: a Streamlit script *)
(* that is re-run from top to bottom on every widget interaction.  One     *)
(* action of the model is one complete run of the script (one render       *)
(* pass): file read, preprocessing, date slice, cascading location         *)
(* widgets, the filter branch chain, the KPIs and the aggregate tables.    *)
(***************************************************************************)
EXTENDS Integers, Sequences, FiniteSets, TLC

(***************************************************************************)
(* Bounds of the model.                                                    *)
(***************************************************************************)
\* longest uploaded table of the exhaustive families
MaxRows == 2
\* most options selected at once in one multiselect
MaxPicks == 2
\* number of distinct cities of the largest table of the wide family
MaxWide == 11

(***************************************************************************)
(* Program constants.                                                      *)
(***************************************************************************)
\* .head(10) of top_cities
TopN == 10
\* one past the last line of the script: a pass that ends there ran through
EndOfScript == 676

(***************************************************************************)
(* Strings.  pandas sorts group keys; TLC has no order on strings, so the  *)
(* order of every string the model uses is given by its place in this      *)
(* alphabetical list.                                                      *)
(***************************************************************************)
Alphabetical ==
    << "Akron", "Albany", "Apr", "April", "Boston", "California", "Chairs",
       "Chicago", "Consumer", "Corporate", "Dallas", "East", "Eugene", "Feb",
       "February", "Fresno", "Furniture", "Houston", "Irving", "Jackson",
       "Knoxville", "Lincoln", "Los Angeles", "Miami", "New York", "Newark",
       "Phones", "Springfield", "Technology", "West" >>

RankOf ==
    [s \in { Alphabetical[i] : i \in 1..Len(Alphabetical) } |->
        CHOOSE i \in 1..Len(Alphabetical) : Alphabetical[i] = s]

Rank(s) == RankOf[s]

StrLess(a, b) == Rank(a) < Rank(b)

Range(s) == { s[i] : i \in 1..Len(s) }

RECURSIVE SumOver(_, _)
\* sum of val[x] over the finite set S
SumOver(S, val) ==
    IF S = {} THEN 0
    ELSE LET x == CHOOSE y \in S : TRUE
         IN  val[x] + SumOver(S \ {x}, val)

(***************************************************************************)
(* Numbers.  Money is counted in whole units; a quotient the script        *)
(* computes in floating point is kept as a reduced fraction, and the       *)
(* not-a-number value numpy returns for 0/0 and for the mean of nothing    *)
(* is NaN.                                                                 *)
(***************************************************************************)
Abs(n) == IF n < 0 THEN -n ELSE n

RECURSIVE GCD(_, _)
GCD(a, b) == IF b = 0 THEN a ELSE GCD(b, a % b)

NaN == [num |-> 0, den |-> 0]

\* n / d as numpy computes it for numpy scalars: 0/0 is nan, not an exception
Ratio(n, d) ==
    IF d = 0 THEN NaN
    ELSE LET g == GCD(Abs(n), Abs(d))
             s == IF d < 0 THEN -1 ELSE 1
         IN  [num |-> (s * n) \div g, den |-> (s * d) \div g]

Zero == [num |-> 0, den |-> 1]

(***************************************************************************)
(* Timestamps.  A value of the Order Date column after pd.to_datetime:     *)
(* year, month, day and hour of day; NaT for a cell that did not parse.    *)
(***************************************************************************)
NaT == [y |-> 0, m |-> 0, d |-> 0, h |-> 0]

TsKey(t) == ((t.y * 12 + t.m) * 31 + t.d) * 24 + t.h

TsLE(a, b) == TsKey(a) <= TsKey(b)

MonthAbbr ==
    << "Jan", "Feb", "Mar", "Apr", "May", "Jun",
       "Jul", "Aug", "Sep", "Oct", "Nov", "Dec" >>

MonthName ==
    << "January", "February", "March", "April", "May", "June", "July",
       "August", "September", "October", "November", "December" >>

\* strftime("%Y : %b") of a month period: the label "2023 : Feb", kept as
\* its two parts
Label(t) == [Y |-> t.y, b |-> MonthAbbr[t.m]]

\* the place of such a label among the labels as strings: the four-digit
\* year first, then the month abbreviation letter by letter
LabelRank(l) == l.Y * 100 + Rank(l.b)

\* st.date_input keeps the calendar day; pd.to_datetime of it is midnight
DateInput(t) == [t EXCEPT !.h = 0]

(***************************************************************************)
(* The uploaded table.  A row is one line of the file; Columns are the     *)
(* headers the script reads.  A file is [rows, columns, readable]: the     *)
(* rows in file order, the headers present, and whether pd.read_csv /      *)
(* pd.read_excel can read it.                                              *)
(***************************************************************************)
RequiredColumns ==
    { "Order Date", "Region", "State", "City", "Category", "Sub-Category",
      "Segment", "Sales", "Profit", "Quantity" }

OptionalColumns == { "Order ID", "Customer ID", "Product Name" }

AllColumns == RequiredColumns \cup OptionalColumns

Cell(row, col) ==
    CASE col = "Order Date"   -> row.OrderDate
      [] col = "Region"       -> row.Region
      [] col = "State"        -> row.State
      [] col = "City"         -> row.City
      [] col = "Category"     -> row.Category
      [] col = "Sub-Category" -> row.SubCategory
      [] col = "Segment"      -> row.Segment
      [] col = "Sales"        -> row.Sales
      [] col = "Profit"       -> row.Profit
      [] col = "Quantity"     -> row.Quantity
      [] col = "Order ID"     -> row.OrderID
      [] col = "Customer ID"  -> row.CustomerID

NoFile == [rows |-> << >>, columns |-> {}, readable |-> FALSE]

(***************************************************************************)
(* Data frames.  A frame is its index (the labels of its rows, in order:   *)
(* the label of a row is its position in the file), its columns, and the   *)
(* Python object it is: two names bound to the same object share every     *)
(* later change of it.  Cells are read from the file through the label.    *)
(***************************************************************************)
NoFrame == [index |-> << >>, columns |-> {}, obj |-> "unset"]

Labels(frame) == Range(frame.index)

\* the rows of `frame` whose label is in `keep`, as a new object
Select(frame, keep, name) ==
    [index   |-> SelectSeq(frame.index, LAMBDA i : i \in keep),
     columns |-> frame.columns,
     obj     |-> name]

\* frame.copy()
Copy(frame, name) == [frame EXCEPT !.obj = name]

\* filtered_df["month_year"] = ... (line 408) and filtered_df["month"] = ...
\* (line 578): the columns a pass that ends at line `stop` has added to the
\* object
AddColumns(frame, stop) ==
    [frame EXCEPT !.columns =
        @ \cup (IF stop <= 408 THEN {} ELSE {"month_year"})
          \cup (IF stop <= 578 THEN {} ELSE {"month"})]

\* pd.read_csv / pd.read_excel
ReadFile(file) ==
    [index   |-> [i \in 1..Len(file.rows) |-> i],
     columns |-> file.columns,
     obj     |-> "df"]

\* pd.to_datetime(errors='coerce'): a cell that is no date becomes NaT
ToDatetime(cell) == IF cell.m \in 1..12 /\ cell.d \in 1..31 THEN cell ELSE NaT

OrderDate(file, i) == ToDatetime(file.rows[i].OrderDate)

\* df.dropna(subset=["Order Date"])
DropNa(file, frame) ==
    Select(frame, { i \in Labels(frame) : OrderDate(file, i) # NaT }, "df")

\* df["Order Date"].min() and .max()
MinDate(file, frame) ==
    IF frame.index = << >> THEN NaT
    ELSE LET i == CHOOSE j \in Labels(frame) :
                    \A k \in Labels(frame) :
                        TsLE(OrderDate(file, j), OrderDate(file, k))
         IN  OrderDate(file, i)

MaxDate(file, frame) ==
    IF frame.index = << >> THEN NaT
    ELSE LET i == CHOOSE j \in Labels(frame) :
                    \A k \in Labels(frame) :
                        TsLE(OrderDate(file, k), OrderDate(file, j))
         IN  OrderDate(file, i)

\* df[(df["Order Date"] >= date1) & (df["Order Date"] <= date2)].copy()
DateSlice(file, frame, lower, upper) ==
    Select(frame,
           { i \in Labels(frame) : /\ TsLE(lower, OrderDate(file, i))
                                   /\ TsLE(OrderDate(file, i), upper) },
           "df")

RECURSIVE UniqueSeq(_)
\* Series.unique(): the distinct values in order of first appearance
UniqueSeq(s) ==
    IF s = << >> THEN << >>
    ELSE LET rest == UniqueSeq(SubSeq(s, 1, Len(s) - 1))
             x    == s[Len(s)]
         IN  IF x \in Range(rest) THEN rest ELSE Append(rest, x)

Unique(file, frame, col) ==
    UniqueSeq([k \in 1..Len(frame.index) |-> Cell(file.rows[frame.index[k]], col)])

\* frame[col].isin(sel): a boolean Series over the frame's own index
Isin(file, frame, col, sel) ==
    [i \in Labels(frame) |-> Cell(file.rows[i], col) \in sel]

\* a & b of two boolean Series: aligned on the union of the two indexes, a
\* label missing on one side counts as False
MaskAnd(a, b) ==
    [i \in (DOMAIN a) \cup (DOMAIN b) |->
        /\ i \in DOMAIN a /\ a[i]
        /\ i \in DOMAIN b /\ b[i]]

\* frame[mask]: the mask is reindexed to the frame's index (every label of
\* the frame is in every mask the script builds), the True rows are kept
BoolIndex(frame, mask, name) ==
    Select(frame, { i \in Labels(frame) : i \in DOMAIN mask /\ mask[i] }, name)

\* a branch chain whose state-and-city branch is taken against the base
\* table instead of the narrowed one
FilterChainOnBase(file, base, narrowed, R, S, C) ==
    IF R = {} /\ S = {} /\ C = {}
    THEN base
    ELSE IF S = {} /\ C = {}
    THEN BoolIndex(base, Isin(file, base, "Region", R), "filtered_df")
    ELSE IF R = {} /\ C = {}
    THEN BoolIndex(base, Isin(file, base, "State", S), "filtered_df")
    ELSE IF S # {} /\ C # {}
    THEN BoolIndex(base,
                   MaskAnd(Isin(file, base, "State", S),
                           Isin(file, base, "City", C)),
                   "filtered_df")
    ELSE IF R # {} /\ C # {}
    THEN BoolIndex(narrowed,
                   MaskAnd(Isin(file, base, "Region", R),
                           Isin(file, narrowed, "City", C)),
                   "filtered_df")
    ELSE BoolIndex(narrowed,
                   MaskAnd(Isin(file, base, "Region", R),
                           Isin(file, narrowed, "State", S)),
                   "filtered_df")

(***************************************************************************)
(* The filter branch chain, lines 228-243.  df is the date-sliced base     *)
(* table and df3 the region- then state-narrowed table; the masks built    *)
(* from df carry df's index and are aligned with df3's.                    *)
(***************************************************************************)
FilterChain(file, base, narrowed, R, S, C) ==
    IF R = {} /\ S = {} /\ C = {}
    THEN base
    ELSE IF S = {} /\ C = {}
    THEN BoolIndex(base, Isin(file, base, "Region", R), "filtered_df")
    ELSE IF R = {} /\ C = {}
    THEN BoolIndex(base, Isin(file, base, "State", S), "filtered_df")
    ELSE IF S # {} /\ C # {}
    THEN BoolIndex(narrowed,
                   MaskAnd(Isin(file, base, "State", S),
                           Isin(file, narrowed, "City", C)),
                   "filtered_df")
    ELSE IF R # {} /\ C # {}
    THEN BoolIndex(narrowed,
                   MaskAnd(Isin(file, base, "Region", R),
                           Isin(file, narrowed, "City", C)),
                   "filtered_df")
    ELSE IF R # {} /\ S # {}
    THEN BoolIndex(narrowed,
                   MaskAnd(Isin(file, base, "Region", R),
                           Isin(file, narrowed, "State", S)),
                   "filtered_df")
    ELSE IF C # {}
    THEN BoolIndex(narrowed, Isin(file, narrowed, "City", C), "filtered_df")
    ELSE BoolIndex(narrowed,
                   MaskAnd(MaskAnd(Isin(file, narrowed, "Region", R),
                                   Isin(file, narrowed, "State", S)),
                           Isin(file, narrowed, "City", C)),
                   "filtered_df")

\* df2, df3, df4 (lines 195-198, 207-210, 219-222): the table narrowed by
\* one selection, or a copy of it when nothing is selected
Narrow(file, frame, col, sel, name) ==
    IF sel = {} THEN Copy(frame, name)
    ELSE BoolIndex(frame, Isin(file, frame, col, sel), name)

(***************************************************************************)
(* Aggregates.                                                             *)
(***************************************************************************)
\* frame[col].sum()
ColumnSum(file, frame, col) ==
    SumOver(Labels(frame), [i \in Labels(frame) |-> Cell(file.rows[i], col)])

RECURSIVE SortedBy(_, _)
\* the elements of S in ascending order of their rank
SortedBy(S, rank) ==
    IF S = {} THEN << >>
    ELSE LET x == CHOOSE y \in S : \A z \in S \ {y} : rank[y] < rank[z]
         IN  << x >> \o SortedBy(S \ {x}, rank)

\* a sorted group-by of string keys
SortedKeys(keys) == SortedBy(keys, [x \in keys |-> Rank(x)])

\* a group-by that keeps one row of each group instead of summing them
GroupAny(file, frame, col, val) ==
    LET keys   == { Cell(file.rows[i], col) : i \in Labels(frame) }
        sorted == SortedKeys(keys)
    IN  [k \in 1..Len(sorted) |->
            [key   |-> sorted[k],
             Sales |-> LET i == CHOOSE j \in Labels(frame) :
                                   Cell(file.rows[j], col) = sorted[k]
                       IN  Cell(file.rows[i], val)]]

\* frame.groupby(col)[val].sum(): one row per distinct key, in key order
GroupSum(file, frame, col, val) ==
    LET keys   == { Cell(file.rows[i], col) : i \in Labels(frame) }
        sorted == SortedKeys(keys)
    IN  [k \in 1..Len(sorted) |->
            [key   |-> sorted[k],
             Sales |-> LET grp == { i \in Labels(frame) :
                                      Cell(file.rows[i], col) = sorted[k] }
                       IN  SumOver(grp, [i \in grp |-> Cell(file.rows[i], val)])]]

RECURSIVE DescOrders(_)
\* sort_values(by="Sales", ascending=False) with the default kind,
\* quicksort, which is not stable: every arrangement of the rows in
\* non-increasing order of Sales is a possible result
DescOrders(S) ==
    IF S = {} THEN { << >> }
    ELSE LET top == { r \in S : \A q \in S : q.Sales <= r.Sales }
         IN  UNION { { << r >> \o t : t \in DescOrders(S \ {r}) } : r \in top }

RECURSIVE AscOrders(_)
\* every arrangement of the rows in non-decreasing order of Sales
AscOrders(S) ==
    IF S = {} THEN { << >> }
    ELSE LET low == { r \in S : \A q \in S : r.Sales <= q.Sales }
         IN  UNION { { << r >> \o t : t \in AscOrders(S \ {r}) } : r \in low }

\* sort_values without ascending=False
SortValuesAscending(tbl) == AscOrders(Range(tbl))

\* .sort_values(by="Sales", ascending=False), line 338: the possible results
SortValues(tbl) == DescOrders(Range(tbl))

\* .head(n)
Head_(tbl, n) == SubSeq(tbl, 1, IF Len(tbl) < n THEN Len(tbl) ELSE n)

\* top_cities, lines 335-340: the possible tables
TopCities(file, frame) ==
    { Head_(t, TopN) : t \in SortValues(GroupSum(file, frame, "City", "Sales")) }

\* linechart, lines 408-413: grouped by the "%Y : %b" label of the month,
\* one row per label in the order of the labels as strings
LineChart(file, frame) ==
    LET keys   == { Label(OrderDate(file, i)) : i \in Labels(frame) }
        sorted == SortedBy(keys, [l \in keys |-> LabelRank(l)])
    IN  [k \in 1..Len(sorted) |->
            [month_year |-> sorted[k],
             Sales |-> LET grp == { i \in Labels(frame) :
                                      Label(OrderDate(file, i)) = sorted[k] }
                       IN  SumOver(grp, [i \in grp |-> file.rows[i].Sales])]]

\* Series.dt.month_name()
MonthOf(file, i) == MonthName[OrderDate(file, i).m]

\* sub_category_year, lines 578-585: pd.pivot_table with its default
\* aggfunc, the mean; a cell without rows is NaN
PivotTable(file, frame) ==
    LET subs   == { file.rows[i].SubCategory : i \in Labels(frame) }
        months == { MonthOf(file, i) : i \in Labels(frame) }
    IN  [index   |-> SortedKeys(subs),
         columns |-> SortedKeys(months),
         cell    |-> [c \in subs \X months |->
                        LET grp == { i \in Labels(frame) :
                                       /\ file.rows[i].SubCategory = c[1]
                                       /\ MonthOf(file, i) = c[2] }
                        IN  Ratio(SumOver(grp, [i \in grp |-> file.rows[i].Sales]),
                                  Cardinality(grp))]]

NoPivot == [index |-> << >>, columns |-> << >>, cell |-> << >>]

\* the margin without its guard
ProfitMarginUnguarded(sales, profit) == Ratio(profit * 100, sales)

\* profit_margin, line 254
ProfitMargin(sales, profit) ==
    IF sales > 0 THEN Ratio(profit * 100, sales) ELSE Zero

\* avg_order_value, line 255
AvgOrderValue(file, frame, sales) ==
    IF "Order ID" \in frame.columns
    THEN LET orders == { file.rows[i].OrderID : i \in Labels(frame) }
         IN  Ratio(ColumnSum(file, frame, "Sales"), Cardinality(orders))
    ELSE Ratio(sales, Len(frame.index))

\* unique_customers, line 290
UniqueCustomers(file, frame) ==
    IF "Customer ID" \in frame.columns
    THEN Cardinality({ file.rows[i].CustomerID : i \in Labels(frame) })
    ELSE Len(frame.index)

(***************************************************************************)
(* Where a pass ends.  The script has no validation of its own: a read     *)
(* error stops it at st.stop() (line 128), a missing column raises at the  *)
(* first line that looks the column up, and a pass with neither runs to    *)
(* the end.  Optional columns are tested with "in ... columns" before use. *)
(***************************************************************************)
FirstUse(col) ==
    CASE col = "Order Date"   -> 138
      [] col = "Region"       -> 190
      [] col = "State"        -> 203
      [] col = "City"         -> 215
      [] col = "Sales"        -> 251
      [] col = "Profit"       -> 252
      [] col = "Quantity"     -> 253
      [] col = "Category"     -> 305
      [] col = "Sub-Category" -> 457
      [] col = "Segment"      -> 482

ErrorLine(file) ==
    LET missing == RequiredColumns \ file.columns
    IN  IF ~file.readable THEN 128
        ELSE IF missing = {} THEN EndOfScript
        ELSE CHOOSE l \in { FirstUse(c) : c \in missing } :
                 \A c \in missing : l <= FirstUse(c)

\* what a pass shows, with the line that shows it
Outputs ==
    << [line |-> 156, name |-> "download_full",      kind |-> "download"],
       [line |-> 261, name |-> "kpi",                kind |-> "kpi"],
       [line |-> 329, name |-> "category_chart",     kind |-> "chart"],
       [line |-> 363, name |-> "top_cities_chart",   kind |-> "chart"],
       [line |-> 372, name |-> "category_table",     kind |-> "table"],
       [line |-> 387, name |-> "top_cities_table",   kind |-> "table"],
       [line |-> 437, name |-> "linechart_chart",    kind |-> "chart"],
       [line |-> 441, name |-> "linechart_table",    kind |-> "table"],
       [line |-> 470, name |-> "treemap",            kind |-> "chart"],
       [line |-> 499, name |-> "segment_pie",        kind |-> "chart"],
       [line |-> 521, name |-> "category_pie",       kind |-> "chart"],
       [line |-> 562, name |-> "region_chart",       kind |-> "chart"],
       [line |-> 574, name |-> "sample_table",       kind |-> "table"],
       [line |-> 587, name |-> "pivot_table",        kind |-> "table"],
       [line |-> 634, name |-> "top_products_chart", kind |-> "chart"],
       [line |-> 662, name |-> "margin_chart",       kind |-> "chart"] >>

\* the outputs a pass that ends at line `stop` has shown, in order
Rendered(file, stop) ==
    LET shown == SelectSeq(Outputs,
                     LAMBDA o : /\ o.line < stop
                                /\ o.name = "top_products_chart"
                                       => "Product Name" \in file.columns)
    IN  [k \in 1..Len(shown) |-> shown[k].name]

(***************************************************************************)
(* State.  f1 is the uploaded file.  date1, date2, region, state, city are *)
(* the widget values of the last pass and the *Options the choices the     *)
(* three multiselects offered.  df_sliced is df right after the date slice *)
(* (line 179) and df the same name at the end of the pass; the other       *)
(* names are the script's, with the value each holds at the end of the     *)
(* last pass (the unset values when the pass ended before the line).       *)
(* rendered is what the last pass has shown, error_line the line it ended  *)
(* at.                                                                     *)
(***************************************************************************)
VARIABLES f1, date1, date2, region, state, city,
          regionOptions, stateOptions, cityOptions,
          df_sliced, df, df2, df3, df4, filtered_df,
          total_sales, total_profit, total_quantity, profit_margin,
          avg_order_value, unique_customers,
          category_df, top_cities, linechart, segment_df, sub_category_year,
          rendered, error_line

vars == << f1, date1, date2, region, state, city,
           regionOptions, stateOptions, cityOptions,
           df_sliced, df, df2, df3, df4, filtered_df,
           total_sales, total_profit, total_quantity, profit_margin,
           avg_order_value, unique_customers,
           category_df, top_cities, linechart, segment_df, sub_category_year,
           rendered, error_line >>

\* before anything is uploaded the script stops at line 132
Init ==
    /\ f1 = NoFile
    /\ date1 = NaT /\ date2 = NaT
    /\ region = {} /\ state = {} /\ city = {}
    /\ regionOptions = << >> /\ stateOptions = << >> /\ cityOptions = << >>
    /\ df_sliced = NoFrame /\ df = NoFrame
    /\ df2 = NoFrame /\ df3 = NoFrame /\ df4 = NoFrame
    /\ filtered_df = NoFrame
    /\ total_sales = 0 /\ total_profit = 0 /\ total_quantity = 0
    /\ profit_margin = Zero /\ avg_order_value = Zero
    /\ unique_customers = 0
    /\ category_df = << >> /\ top_cities = << >> /\ linechart = << >>
    /\ segment_df = << >> /\ sub_category_year = NoPivot
    /\ rendered = << >>
    /\ error_line = 132

\* a multiselect that keeps its selection whatever it offers
MultiselectSticky(fresh, options, offered, selected) ==
    IF ~fresh THEN selected ELSE {}

\* a multiselect keeps its selection over a re-run only while it offers the
\* same options; with other options it is a new widget with the default,
\* nothing selected
Multiselect(fresh, options, offered, selected) ==
    IF ~fresh /\ options = offered THEN selected ELSE {}

(***************************************************************************)
(* One render pass over the file f1', lines 116-675.  `fresh` is the first *)
(* pass after an upload, where every widget has its default; otherwise d1, *)
(* d2, R, S, C are the widget values the user left.                        *)
(***************************************************************************)
Pass(fresh, d1, d2, R, S, C) ==
    /\ error_line' = ErrorLine(f1')
    /\ LET df0 == DropNa(f1', ReadFile(f1'))
       IN  /\ date1' = IF error_line' <= 173 THEN NaT
                       ELSE IF fresh THEN DateInput(MinDate(f1', df0)) ELSE d1
           /\ date2' = IF error_line' <= 176 THEN NaT
                       ELSE IF fresh THEN DateInput(MaxDate(f1', df0)) ELSE d2
           /\ df_sliced' = IF error_line' <= 179 THEN NoFrame
                           ELSE DateSlice(f1', df0, date1', date2')
    /\ regionOptions' = IF error_line' <= 190 THEN << >>
                        ELSE Unique(f1', df_sliced', "Region")
    /\ region' = Multiselect(fresh, regionOptions', regionOptions, R)
    /\ df2' = IF error_line' <= 190 THEN NoFrame
              ELSE Narrow(f1', df_sliced', "Region", region', "df2")
    /\ stateOptions' = IF error_line' <= 203 THEN << >>
                       ELSE Unique(f1', df2', "State")
    /\ state' = Multiselect(fresh, stateOptions', stateOptions, S)
    /\ df3' = IF error_line' <= 203 THEN NoFrame
              ELSE Narrow(f1', df2', "State", state', "df3")
    /\ cityOptions' = IF error_line' <= 215 THEN << >>
                      ELSE Unique(f1', df3', "City")
    /\ city' = Multiselect(fresh, cityOptions', cityOptions, C)
    /\ df4' = IF error_line' <= 215 THEN NoFrame
              ELSE Narrow(f1', df3', "City", city', "df4")
    \* lines 228-243, then the columns line 408 and line 578 add to the
    \* object filtered_df names
    /\ filtered_df' =
          IF error_line' <= 215 THEN NoFrame
          ELSE AddColumns(FilterChain(f1', df_sliced', df3',
                                      region', state', city'),
                          error_line')
    \* df at the end of the pass: the same object or another
    /\ df' = IF df_sliced'.obj = filtered_df'.obj
             THEN AddColumns(df_sliced', error_line')
             ELSE df_sliced'
    /\ total_sales' = IF error_line' <= 251 THEN 0
                      ELSE ColumnSum(f1', filtered_df', "Sales")
    /\ total_profit' = IF error_line' <= 252 THEN 0
                       ELSE ColumnSum(f1', filtered_df', "Profit")
    /\ total_quantity' = IF error_line' <= 253 THEN 0
                         ELSE ColumnSum(f1', filtered_df', "Quantity")
    /\ profit_margin' = IF error_line' <= 254 THEN Zero
                        ELSE ProfitMargin(total_sales', total_profit')
    /\ avg_order_value' = IF error_line' <= 255 THEN Zero
                          ELSE AvgOrderValue(f1', filtered_df', total_sales')
    /\ unique_customers' = IF error_line' <= 290 THEN 0
                           ELSE UniqueCustomers(f1', filtered_df')
    /\ category_df' = IF error_line' <= 305 THEN << >>
                      ELSE GroupSum(f1', filtered_df', "Category", "Sales")
    /\ top_cities' \in IF error_line' <= 335 THEN { << >> }
                       ELSE TopCities(f1', filtered_df')
    /\ linechart' = IF error_line' <= 408 THEN << >>
                    ELSE LineChart(f1', filtered_df')
    /\ segment_df' = IF error_line' <= 482 THEN << >>
                     ELSE GroupSum(f1', filtered_df', "Segment", "Sales")
    /\ sub_category_year' = IF error_line' <= 578 THEN NoPivot
                            ELSE PivotTable(f1', filtered_df')
    /\ rendered' = Rendered(f1', error_line')

(***************************************************************************)
(* The files the model uploads.  Every file has at least one row with a    *)
(* date that parses.                                                       *)
(***************************************************************************)
T1 == [y |-> 2023, m |-> 2, d |-> 10, h |-> 0]
T2 == [y |-> 2023, m |-> 4, d |-> 5, h |-> 0]
T3 == [y |-> 2024, m |-> 2, d |-> 20, h |-> 0]
\* an Order Date cell that is no date
BadDate == [y |-> 0, m |-> 0, d |-> 0, h |-> 0]

\* the days the two date pickers are set to
DatePicks == { T1, T3 }

Row(date, loc, cat, meas) ==
    [OrderDate |-> date,
     Region |-> loc[1], State |-> loc[2], City |-> loc[3],
     Category |-> cat[1], SubCategory |-> cat[2], Segment |-> cat[3],
     Sales |-> meas[1], Profit |-> meas[2], Quantity |-> meas[3],
     OrderID |-> meas[4], CustomerID |-> meas[5]]

Furniture == << "Furniture", "Chairs", "Consumer" >>
Technology == << "Technology", "Phones", "Corporate" >>

\* tables of at most n rows drawn from `rows`, every column present
Files(rows, n) ==
    { [rows |-> r, columns |-> AllColumns, readable |-> TRUE] :
        r \in { q \in UNION { [1..k -> rows] : k \in 1..n } :
                  \E i \in DOMAIN q : ToDatetime(q[i].OrderDate) # NaT } }

\* locations: the same state under two regions, the same city under two
\* states
Locations ==
    << << "West", "California", "Springfield" >>,
       << "East", "California", "Springfield" >>,
       << "East", "New York", "Springfield" >>,
       << "East", "New York", "Albany" >> >>

LocRows ==
    { Row(T1, Locations[k], Furniture, << k, 1, 1, k, k >>) :
        k \in 1..Len(Locations) }
    \cup { Row(T3, Locations[k], Furniture, << k, 1, 1, k, k >>) : k \in {1, 3} }
    \cup { Row(BadDate, Locations[1], Furniture, << 1, 1, 1, 1, 1 >>) }

LocFiles == Files(LocRows, MaxRows)

\* measures: sales, profit, quantity, order, customer
Measures == { << 0, -1, 1, 1, 1 >>, << 2, 1, 3, 2, 2 >> }

AggRows ==
    { Row(t, Locations[1], c, m) :
        t \in { T1, T3 }, c \in { Furniture, Technology }, m \in Measures }
    \cup { Row(T2, Locations[1], Furniture, << 2, 1, 3, 2, 2 >>) }

AggFiles == Files(AggRows, MaxRows)

\* one-row tables with one column missing, or unreadable
ColsFiles ==
    { [f EXCEPT !.columns = AllColumns \ drop, !.readable = ok] :
        f \in Files(AggRows, 1),
        drop \in { {} } \cup { {c} : c \in AllColumns },
        ok \in BOOLEAN }

WideCities ==
    << "Akron", "Boston", "Chicago", "Dallas", "Eugene", "Fresno", "Houston",
       "Irving", "Jackson", "Knoxville", "Lincoln", "Miami", "Newark" >>

\* n cities, one row each, the i-th with sales i, so that no two tie; with
\* tie > 0 row `tie` has the sales of the next row, and with dup = 1 the
\* first city has a second row, which lifts its sum to that of the second
WideFile(n, tie, dup) ==
    [rows |-> [i \in 1..(n + dup) |->
                  IF i <= n
                  THEN Row(T1, << "West", "California", WideCities[i] >>,
                           Furniture,
                           << IF i = tie THEN i + 1 ELSE i, 0, 1, i, i >>)
                  ELSE Row(T1, << "West", "California", WideCities[1] >>,
                           Furniture, << 1, 0, 1, i, i >>)],
     columns |-> AllColumns,
     readable |-> TRUE]

WideFiles ==
    { WideFile(MaxWide - 1, 0, 0) }
    \cup { WideFile(MaxWide, v[1], v[2]) :
             v \in { << 0, 0 >>, << 0, 1 >>, << MaxWide - TopN, 0 >> } }

CityRows ==
    { Row(T1, << "West", "California", c >>, Furniture, << v, 0, 1, 1, 1 >>) :
        c \in { "Albany", "Springfield" }, v \in 1..2 }

TopFiles == WideFiles \cup Files(CityRows, MaxRows)

\* order dates that carry a time of day: noon of the first day, 18:00 of
\* the last
T1Noon == [T1 EXCEPT !.h = 12]
T3Evening == [T3 EXCEPT !.h = 18]

\* rows at midnight and later in the day, and one row without a date
TimeRows ==
    { Row(t, Locations[1], Furniture, << 2, 1, 3, 2, 2 >>) :
        t \in { T1, T1Noon, T3, T3Evening, BadDate } }

TimeFiles == Files(TimeRows, MaxRows)

(***************************************************************************)
(* Actions: an upload or a widget change, each followed by the re-run of   *)
(* the script.  One file is uploaded per session.                          *)
(***************************************************************************)
Upload(file) ==
    /\ f1' = file
    /\ Pass(TRUE, NaT, NaT, {}, {}, {})

SetStartDate(d) ==
    /\ f1 # NoFile
    /\ error_line > 173
    /\ d # date1
    /\ UNCHANGED f1
    /\ Pass(FALSE, d, date2, region, state, city)

SetEndDate(d) ==
    /\ f1 # NoFile
    /\ error_line > 176
    /\ d # date2
    /\ UNCHANGED f1
    /\ Pass(FALSE, date1, d, region, state, city)

\* one click in a multiselect adds or removes one option
Toggle(sel, x) == IF x \in sel THEN sel \ {x} ELSE sel \cup {x}

ToggleRegion(r) ==
    /\ r \in Range(regionOptions)
    /\ Cardinality(Toggle(region, r)) <= MaxPicks
    /\ UNCHANGED f1
    /\ Pass(FALSE, date1, date2, Toggle(region, r), state, city)

ToggleState(x) ==
    /\ x \in Range(stateOptions)
    /\ Cardinality(Toggle(state, x)) <= MaxPicks
    /\ UNCHANGED f1
    /\ Pass(FALSE, date1, date2, region, Toggle(state, x), city)

ToggleCity(c) ==
    /\ c \in Range(cityOptions)
    /\ Cardinality(Toggle(city, c)) <= MaxPicks
    /\ UNCHANGED f1
    /\ Pass(FALSE, date1, date2, region, state, Toggle(city, c))

Interact ==
    \/ \E d \in DatePicks : SetStartDate(d)
    \/ \E d \in DatePicks : SetEndDate(d)
    \/ \E r \in Range(regionOptions) : ToggleRegion(r)
    \/ \E x \in Range(stateOptions) : ToggleState(x)
    \/ \E c \in Range(cityOptions) : ToggleCity(c)

\* location filtering: tables that vary region, state and city
Next == (f1 = NoFile /\ \E file \in LocFiles : Upload(file)) \/ Interact
Spec == Init /\ [][Next]_vars

\* aggregation: tables that vary date, category and the measures
NextAgg == (f1 = NoFile /\ \E file \in AggFiles : Upload(file)) \/ Interact
SpecAgg == Init /\ [][NextAgg]_vars

\* error handling: tables with a column missing, unreadable files
NextCols == (f1 = NoFile /\ \E file \in ColsFiles : Upload(file)) \/ Interact
SpecCols == Init /\ [][NextCols]_vars

\* ranking: tables with more than TopN cities, and ties
NextTop == (f1 = NoFile /\ \E file \in TopFiles : Upload(file)) \/ Interact
SpecTop == Init /\ [][NextTop]_vars

\* time of day: tables whose order dates are not all at midnight
NextTime == (f1 = NoFile /\ \E file \in TimeFiles : Upload(file)) \/ Interact
SpecTime == Init /\ [][NextTime]_vars

(***************************************************************************)
(* Properties.                                                             *)
(***************************************************************************)
Uploaded == f1 # NoFile

Completed == Uploaded /\ error_line = EndOfScript

\* the rows of `frame` that satisfy the constraints that are set
Conjunction(file, frame, R, S, C) ==
    SelectSeq(frame.index,
              LAMBDA i : /\ R # {} => file.rows[i].Region \in R
                         /\ S # {} => file.rows[i].State \in S
                         /\ C # {} => file.rows[i].City \in C)

\* C1: the final filtered table holds exactly the rows of the date-sliced
\* base table that satisfy every constraint that is set (region in R, state
\* in S, city in C), an empty selection being no constraint.
C1_FilterIsConjunction ==
    Completed =>
        filtered_df.index = Conjunction(f1, df_sliced, region, state, city)

\* C1 witness: all three selections are set, and a row of the base table has
\* a selected state and a selected city under a region that is not selected.
C1_Witness ==
    /\ Completed
    /\ region # {} /\ state # {} /\ city # {}
    /\ filtered_df.index # << >>
    /\ \E i \in Labels(df_sliced) :
          /\ f1.rows[i].State \in state
          /\ f1.rows[i].City \in city
          /\ f1.rows[i].Region \notin region

\* the month number of a "%b" abbreviation
MonthNumber(b) == CHOOSE m \in 1..12 : MonthAbbr[m] = b

\* C2: the monthly time series is in chronological order: of two entries the
\* one with the earlier (year, month) comes first.
C2_Chronological ==
    \A i, j \in 1..Len(linechart) :
        i < j => linechart[i].month_year.Y * 12
                    + MonthNumber(linechart[i].month_year.b)
                 < linechart[j].month_year.Y * 12
                    + MonthNumber(linechart[j].month_year.b)

\* C3: every cell (sub-category, month name) of the pivot holds the sum of
\* the sales of the filtered rows of that sub-category and month name, and
\* a cell without rows is null.
C3_PivotCellIsSum ==
    \A c \in DOMAIN sub_category_year.cell :
        LET grp == { i \in Labels(filtered_df) :
                       /\ f1.rows[i].SubCategory = c[1]
                       /\ MonthOf(f1, i) = c[2] }
        IN  sub_category_year.cell[c] =
               IF grp = {} THEN NaN
               ELSE Ratio(SumOver(grp, [i \in grp |-> f1.rows[i].Sales]), 1)

\* C4: when every required column is there and the filtered table has no
\* row, the pass runs to its end, every KPI is 0 and every aggregate table
\* is empty, with the Order ID column and without it.
C4_EmptyIsAllZero ==
    (/\ Uploaded
     /\ f1.readable
     /\ RequiredColumns \subseteq f1.columns
     /\ filtered_df.index = << >>)
    => /\ error_line = EndOfScript
       /\ total_sales = 0 /\ total_profit = 0 /\ total_quantity = 0
       /\ profit_margin = Zero
       /\ avg_order_value = Zero
       /\ unique_customers = 0
       /\ category_df = << >> /\ top_cities = << >> /\ linechart = << >>
       /\ segment_df = << >>
       /\ sub_category_year.cell = << >>

\* C5: a pass that a read error or a missing required column ends has
\* shown no KPI, table or chart before it ended, and a file that lacks only
\* optional columns is no error: its pass runs to the end.
C5_NoPartialResults ==
    Uploaded =>
        /\ error_line < EndOfScript
              => \A k \in 1..Len(rendered) : rendered[k] = "download_full"
        /\ (f1.readable /\ RequiredColumns \subseteq f1.columns)
              => error_line = EndOfScript

\* C6 as stated: the profit margin is 0 if and only if total sales is 0,
\* and total profit / total sales x 100 otherwise.
C6_MarginZeroIffNoSales ==
    Completed =>
        /\ profit_margin = Zero <=> total_sales = 0
        /\ total_sales # 0
              => profit_margin = Ratio(total_profit * 100, total_sales)

\* C6 amended: the profit margin is 0 when total sales is 0, whatever total
\* profit is, and total profit / total sales x 100 otherwise; so it is 0 if
\* and only if total sales is 0 or total profit is 0.
C6_MarginGuarded ==
    Completed =>
        /\ total_sales = 0 => profit_margin = Zero
        /\ total_sales # 0
              => profit_margin = Ratio(total_profit * 100, total_sales)
        /\ profit_margin = Zero <=> (total_sales = 0 \/ total_profit = 0)

\* C6 witness: rows are left, their sales add up to 0 and their profit does
\* not.
C6_Witness ==
    /\ Completed
    /\ filtered_df.index # << >>
    /\ total_sales = 0 /\ total_profit # 0
    /\ profit_margin = Zero

\* the cities of the filtered table and the sales of each
FilteredCities == { f1.rows[i].City : i \in Labels(filtered_df) }

CitySales(c) ==
    LET grp == { i \in Labels(filtered_df) : f1.rows[i].City = c }
    IN  SumOver(grp, [i \in grp |-> f1.rows[i].Sales])

\* the top-10 table without its tie order: min(10, distinct cities) rows,
\* each a distinct city with the sum of its sales, in descending order of
\* the sums, no city left out above one that is in
RankedTopCities ==
    /\ Len(top_cities) = IF Cardinality(FilteredCities) < TopN
                         THEN Cardinality(FilteredCities) ELSE TopN
    /\ \A k \in 1..Len(top_cities) :
          /\ top_cities[k].key \in FilteredCities
          /\ top_cities[k].Sales = CitySales(top_cities[k].key)
    /\ \A i, j \in 1..Len(top_cities) :
          i < j => /\ top_cities[i].key # top_cities[j].key
                   /\ top_cities[i].Sales >= top_cities[j].Sales
    /\ \A c \in FilteredCities \ { top_cities[k].key : k \in 1..Len(top_cities) } :
          \A k \in 1..Len(top_cities) : CitySales(c) <= top_cities[k].Sales

C9_DatasetUnchanged == Uploaded => df = df_sliced

\* C10: the selections are among the options offered, the final filtered
\* table has the rows of the chained narrowing df4, and it has a row
\* whenever the date-sliced base table has one.
C10_FilteredIsChained ==
    Completed =>
        /\ region \subseteq Range(regionOptions)
        /\ state \subseteq Range(stateOptions)
        /\ city \subseteq Range(cityOptions)
        /\ filtered_df.index = df4.index
        /\ df_sliced.index # << >> => filtered_df.index # << >>

\* C10 witness: after a change of the dates that left rows out, all three
\* selections are set and they narrow the table.
C10_Witness ==
    /\ Completed
    /\ region # {} /\ state # {} /\ city # {}
    /\ (date1 # DateInput(MinDate(f1, DropNa(f1, ReadFile(f1))))
        \/ date2 # DateInput(MaxDate(f1, DropNa(f1, ReadFile(f1)))))
    /\ filtered_df.index # << >>
    /\ Len(filtered_df.index) < Len(df_sliced.index)

\* the table after to_datetime and dropna, before the date-range slice
Preprocessed == DropNa(f1, ReadFile(f1))

\* the two date pickers hold their defaults: the day of the smallest and of
\* the largest valid order date
DefaultBounds ==
    /\ date1 = DateInput(MinDate(f1, Preprocessed))
    /\ date2 = DateInput(MaxDate(f1, Preprocessed))

\* C11: with the default date bounds the inclusive date-range slice retains
\* every row that survived preprocessing, also when order dates carry a
\* time of day later than midnight.
C11_DefaultBoundsRetainAll ==
    (Completed /\ DefaultBounds) => df_sliced.index = Preprocessed.index

=============================================================================
